---- MODULE Spec2Model ----
(***************************************************************************)
(* LoyOpt (src/LoyOpt.h): a command line option parser.                    *)
(*                                                                         *)
(* A string is modelled as a sequence of one-character strings, so that    *)
(* the cluster splitting of the constructor and the strtoll/strtod scans   *)
(* of the value tokens are computed character by character.  Sequences are *)
(* 1-based: args[1] models the C++ args[0].                                *)
(*                                                                         *)
(* Number types are scaled down so that every value fits the checker's     *)
(* integers, and keep their relative shape: int32_t/uint32_t have IntBits  *)
(* bits and int64_t has 2*IntBits bits; a floating value is stored as its  *)
(* count of units of 1/FracUnits, a double keeps DblMant significant bits  *)
(* of it and a float FltMant (fewer than an int32_t has bits, as 24 < 32), *)
(* so that double -> float rounds.                                         *)
(***************************************************************************)
EXTENDS Integers, Sequences, FiniteSets, TLC

\* ------------------------------------------------------------------ bounds
\* width of int32_t / uint32_t in the model (int64_t is twice as wide)
IntBits == 4
\* binary digits after the point of the model's floating values
FracBits == 2
\* longest argument vector (argc) a parser is constructed from
MaxArgc == 3

Pow2(n) == 2 ^ n

\* units per 1.0 of a floating value
FracUnits == Pow2(FracBits)
\* significant bits of a float and of a double
FltMant == IntBits - 1
DblMant == 2 * IntBits - 2

INT32_MIN == 0 - Pow2(IntBits - 1)
INT32_MAX == Pow2(IntBits - 1) - 1
UINT32_MAX == Pow2(IntBits) - 1
LLONG_MIN == 0 - Pow2(2 * IntBits - 1)
LLONG_MAX == Pow2(2 * IntBits - 1) - 1
\* largest finite float / double, in units of 1/FracUnits
FLT_MAX == Pow2(IntBits) * FracUnits
DBL_MAX == Pow2(2 * IntBits) * FracUnits
\* strtod's HUGE_VAL (infinity) compares above every finite double
HUGE_VAL == DBL_MAX + FracUnits

\* ------------------------------------------------------------------ types
\* OptionBase::Val alternatives, by variant index
KBool == 0
KString == 1
KInt32 == 2
KUInt32 == 3
KInt64 == 4
KFloat == 5
KDouble == 6

Status == {"NotParsed", "NotFound", "ValueInvalid", "ValueNotFound",
           "ClampedMax", "ClampedMin", "Parsed"}

\* numeric_limits<T>::lowest() and ::max() of the variant alternative
Lowest(kind) ==
    CASE kind = KInt32  -> INT32_MIN
      [] kind = KUInt32 -> 0
      [] kind = KInt64  -> LLONG_MIN
      [] kind = KFloat  -> 0 - FLT_MAX
      [] kind = KDouble -> 0 - DBL_MAX
      [] OTHER          -> 0

Highest(kind) ==
    CASE kind = KInt32  -> INT32_MAX
      [] kind = KUInt32 -> UINT32_MAX
      [] kind = KInt64  -> LLONG_MAX
      [] kind = KFloat  -> FLT_MAX
      [] kind = KDouble -> DBL_MAX
      [] OTHER          -> 1

\* ------------------------------------------------------------ conversions
\* two's complement wrap of x into a signed type of `bits` bits
WrapSigned(x, bits) ==
    LET m == x % Pow2(bits)
    IN  IF m >= Pow2(bits - 1) THEN m - Pow2(bits) ELSE m

\* the spacing of the values of p significant bits around the magnitude m
RECURSIVE Spacing(_, _, _)
Spacing(m, p, step) ==
    IF m < Pow2(p) * step THEN step ELSE Spacing(m, p, 2 * step)

\* u rounded to p significant bits, to the nearest, ties to even
RoundSig(u, p) ==
    LET st == Spacing(IF u < 0 THEN 0 - u ELSE u, p, 1)
        fl == u \div st
        r  == u % st
        up == \/ 2 * r > st
              \/ 2 * r = st /\ fl % 2 = 1
    IN  (IF up THEN fl + 1 ELSE fl) * st

\* (float)val for a double val
RoundToFloat(u) == RoundSig(u, FltMant)

\* the cast (T)x of clamp(), T the descriptor's alternative
Cast(kind, x) ==
    CASE kind = KInt32  -> WrapSigned(x, IntBits)
      [] kind = KUInt32 -> x % Pow2(IntBits)
      [] kind = KInt64  -> WrapSigned(x, 2 * IntBits)
      [] kind = KFloat  -> RoundToFloat(x)
      [] OTHER          -> x

\* --------------------------------------------------------------- strtoll
\* isspace() on the characters of the model
IsSpace(c) == c = " "

IsDigit(c) == c \in {"0", "1", "2", "3", "4", "5", "6", "7", "8", "9"}

\* value of c as a digit of strtoll (letters count from 10, either case);
\* 99 when c is no digit of any base
DigitVal(c) ==
    CASE c = "0" -> 0 [] c = "1" -> 1 [] c = "2" -> 2 [] c = "3" -> 3
      [] c = "4" -> 4 [] c = "5" -> 5 [] c = "6" -> 6 [] c = "7" -> 7
      [] c = "8" -> 8 [] c = "9" -> 9
      [] c \in {"a", "A"} -> 10 [] c \in {"b", "B"} -> 11
      [] c \in {"c", "C"} -> 12 [] c \in {"d", "D"} -> 13
      [] c \in {"e", "E"} -> 14 [] c \in {"f", "F"} -> 15
      [] c \in {"i", "I"} -> 18 [] c \in {"m", "M"} -> 22
      [] c \in {"n", "N"} -> 23 [] c \in {"o", "O"} -> 24
      [] c \in {"p", "P"} -> 25 [] c \in {"s", "S"} -> 28
      [] c \in {"t", "T"} -> 29 [] c \in {"u", "U"} -> 30
      [] c \in {"x", "X"} -> 33 [] c \in {"y", "Y"} -> 34
      [] c \in {"z", "Z"} -> 35
      [] OTHER -> 99

\* first position at or after i that holds no white space (Len(s)+1: none)
RECURSIVE SkipSpace(_, _)
SkipSpace(s, i) ==
    IF i <= Len(s) /\ IsSpace(s[i]) THEN SkipSpace(s, i + 1) ELSE i

\* first position at or after i that holds no digit of the base
RECURSIVE DigitsEnd(_, _, _)
DigitsEnd(s, i, base) ==
    IF i <= Len(s) /\ DigitVal(s[i]) < base
    THEN DigitsEnd(s, i + 1, base)
    ELSE i

\* magnitude of the digits s[i..j-1], saturated at cap
RECURSIVE Magnitude(_, _, _, _, _, _)
Magnitude(s, i, j, base, acc, cap) ==
    IF i >= j THEN acc
    ELSE LET nxt == acc * base + DigitVal(s[i])
         IN  Magnitude(s, i + 1, j, base, IF nxt > cap THEN cap ELSE nxt, cap)

\* strtoll(c_str, &s_end, base): val is the result, end is s_end - c_str.
\* White space and one sign are skipped, base 16 accepts a 0x prefix, the
\* value saturates at LLONG_MIN / LLONG_MAX, and without any digit nothing
\* is converted (end = 0), except that "0x" without a hex digit converts
\* the "0" alone.
strtoll(s, base) ==
    LET n    == Len(s)
        i0   == SkipSpace(s, 1)
        neg  == i0 <= n /\ s[i0] = "-"
        i1   == IF i0 <= n /\ s[i0] \in {"-", "+"} THEN i0 + 1 ELSE i0
        pfx  == base = 16 /\ i1 + 1 <= n /\ s[i1] = "0" /\ s[i1 + 1] \in {"x", "X"}
        i2   == IF pfx THEN i1 + 2 ELSE i1
        e    == DigitsEnd(s, i2, base)
        mag  == Magnitude(s, i2, e, base, 0, LLONG_MAX + 2)
    IN  IF e = i2
        THEN [val |-> 0, end |-> IF pfx THEN i1 ELSE 0]
        ELSE [val |-> IF neg
                      THEN (IF mag > LLONG_MAX + 1 THEN LLONG_MIN ELSE 0 - mag)
                      ELSE (IF mag > LLONG_MAX THEN LLONG_MAX ELSE mag),
              end |-> e - 1]

\* ---------------------------------------------------------------- strtod
Lower(c) ==
    CASE c = "I" -> "i" [] c = "N" -> "n" [] c = "F" -> "f" [] c = "A" -> "a"
      [] c = "T" -> "t" [] c = "Y" -> "y" [] c = "X" -> "x"
      [] OTHER -> c

\* does s hold the word w (any case) at position i
HasWord(s, i, w) ==
    /\ i + Len(w) - 1 <= Len(s)
    /\ \A k \in 1..Len(w) : Lower(s[i + k - 1]) = w[k]

\* num/den in units of 1/FracUnits, rounded to nearest, ties to even,
\* for num >= 0 and den > 0
ToUnits(num, den) ==
    LET q == (num * FracUnits) \div den
        r == (num * FracUnits) % den
        up == \/ 2 * r > den
              \/ 2 * r = den /\ q % 2 = 1
    IN  IF up THEN q + 1 ELSE q

RECURSIVE Power(_, _)
Power(b, k) == IF k <= 0 THEN 1 ELSE b * Power(b, k - 1)

\* strtod(c_str, &s_end): val is the nearest double, in units of 1/FracUnits
\* (HUGE_VAL when the literal is "inf"/"infinity" or overflows), nan for "nan", end is
\* s_end - c_str.  White space and one sign are skipped; a literal is
\* digits with an optional fraction, decimal or (after 0x) hexadecimal;
\* the base of the descriptor plays no part.  Exponents ("e", "p") are
\* not part of the modelled input alphabet.
strtod(s) ==
    LET n    == Len(s)
        i0   == SkipSpace(s, 1)
        neg  == i0 <= n /\ s[i0] = "-"
        i1   == IF i0 <= n /\ s[i0] \in {"-", "+"} THEN i0 + 1 ELSE i0
        sgn(v) == IF neg THEN 0 - v ELSE v
        hex  == /\ i1 + 2 <= n /\ s[i1] = "0" /\ s[i1 + 1] \in {"x", "X"}
                /\ \/ DigitVal(s[i1 + 2]) < 16
                   \/ s[i1 + 2] = "." /\ i1 + 3 <= n /\ DigitVal(s[i1 + 3]) < 16
        base == IF hex THEN 16 ELSE 10
        i2   == IF hex THEN i1 + 2 ELSE i1
        e1   == DigitsEnd(s, i2, base)
        dot  == e1 <= n /\ s[e1] = "."
        e2   == IF dot THEN DigitsEnd(s, e1 + 1, base) ELSE e1
        nfrac == IF dot THEN e2 - e1 - 1 ELSE 0
        ndig == (e1 - i2) + nfrac
        cap  == DBL_MAX \div FracUnits + 1
        ip   == Magnitude(s, i2, e1, base, 0, cap)
        fp   == IF dot THEN Magnitude(s, e1 + 1, e2, base, 0, Power(base, nfrac)) ELSE 0
        den  == Power(base, nfrac)
        mag  == IF ip >= cap THEN HUGE_VAL
                ELSE RoundSig(ToUnits(ip * den + fp, den), DblMant)
    IN  IF HasWord(s, i1, <<"i", "n", "f">>)
        THEN [val |-> sgn(HUGE_VAL), nan |-> FALSE,
              end |-> IF HasWord(s, i1, <<"i", "n", "f", "i", "n", "i", "t", "y">>)
                      THEN i1 + 7 ELSE i1 + 2]
        ELSE IF HasWord(s, i1, <<"n", "a", "n">>)
        THEN [val |-> 0, nan |-> TRUE, end |-> i1 + 2]
        ELSE IF ndig = 0
        THEN [val |-> 0, nan |-> FALSE, end |-> 0]
        ELSE [val |-> sgn(IF mag > DBL_MAX THEN HUGE_VAL ELSE mag),
              nan |-> FALSE, end |-> e2 - 1]

\* ------------------------------------------------------------- OptionBase
\* clamp with the value narrowed to T before it is compared
clamp_narrow_first(val, min, max, kind) ==
    LET nv == Cast(kind, val)
    IN  [status |-> IF nv < min THEN "ClampedMin"
                    ELSE IF nv > max THEN "ClampedMax" ELSE "Parsed",
         value  |-> IF nv < min THEN min ELSE IF nv > max THEN max ELSE nv]

\* clamp that treats a value on a bound as out of range
clamp_inclusive(val, min, max, kind) ==
    [status |-> IF val <= min THEN "ClampedMin"
                ELSE IF val >= max THEN "ClampedMax" ELSE "Parsed",
     value  |-> Cast(kind, IF val <= min THEN min
                           ELSE IF val >= max THEN max ELSE val)]

\* T clamp(U val, T min, T max): the status and the value it returns.  The
\* comparisons are made on val as converted (U is int64_t or double), the
\* cast to T comes last.
clamp(val, min, max, kind) ==
    [status |-> IF val < min THEN "ClampedMin"
                ELSE IF val > max THEN "ClampedMax" ELSE "Parsed",
     value  |-> Cast(kind, IF val < min THEN min
                           ELSE IF val > max THEN max ELSE val)]

\* update_numeric_value_n_status(val), by the alternative value holds
update_numeric_value_n_status(opt, val) ==
    IF opt.kind \in {KInt32, KUInt32, KInt64, KFloat, KDouble}
    THEN LET c == clamp(val, opt.min, opt.max, opt.kind)
         IN  [opt EXCEPT !.value = c.value, !.status = c.status]
    ELSE [opt EXCEPT !.value = val, !.status = "Parsed"]

\* NameMatch(name): true when the token is the name or the alternative name
NameMatch(opt, tok) == opt.name = tok \/ opt.alt_name = tok

\* Option<bool>(name, alt_name)
NewBool(name, alt) ==
    [kind |-> KBool, name |-> name, alt_name |-> alt, base |-> 10,
     default_val |-> FALSE, value |-> FALSE, min |-> FALSE, max |-> TRUE,
     status |-> "NotParsed", matched_name |-> <<>>]

\* Option<string>(default_val, name, alt_name)
NewString(dflt, name, alt) ==
    [kind |-> KString, name |-> name, alt_name |-> alt, base |-> 10,
     default_val |-> dflt, value |-> dflt, min |-> <<>>, max |-> <<>>,
     status |-> "NotParsed", matched_name |-> <<>>]

\* Option<T>(default_val, base, min, max, name, alt_name), T numeric
NewNumeric(kind, dflt, base, min, max, name, alt) ==
    [kind |-> kind, name |-> name, alt_name |-> alt,
     base |-> IF base < 2 THEN 2 ELSE IF base > 36 THEN 36 ELSE base,
     default_val |-> dflt, value |-> dflt, min |-> min, max |-> max,
     status |-> "NotParsed", matched_name |-> <<>>]

\* ----------------------------------------------------------- OptionParser
\* a constructor that splits a merged argument from its last character on
ExpandArg_reversed(a) ==
    IF /\ Len(a) >= 3
       /\ a[1] = "-"
       /\ a[2] # "-" /\ a[2] # "."
       /\ ~IsDigit(a[2])
    THEN [j \in 1..(Len(a) - 1) |-> <<"-", a[Len(a) + 1 - j]>>]
    ELSE <<a>>

\* a constructor that keeps every argument whole
ExpandArg_whole(a) == <<a>>

\* the tokens one argument of argv becomes: a '-' followed by two or more
\* characters, the first of them no '-', '.' or digit, is split into one
\* "-c" per character; any other argument is kept
ExpandArg(a) ==
    IF /\ Len(a) >= 3
       /\ a[1] = "-"
       /\ a[2] # "-" /\ a[2] # "."
       /\ ~IsDigit(a[2])
    THEN [j \in 1..(Len(a) - 1) |-> <<"-", a[j + 1]>>]
    ELSE <<a>>

\* the token texts of argv[i..], in order
RECURSIVE ExpandFrom(_, _)
ExpandFrom(av, i) ==
    IF i > Len(av) THEN <<>> ELSE ExpandArg(av[i]) \o ExpandFrom(av, i + 1)

\* OptionParser(argc, argv): args after the loop and args[0].first = true
MakeArgs(av) ==
    LET toks == ExpandFrom(av, 1)
    IN  [i \in 1..Len(toks) |-> [first |-> (i = 1), second |-> toks[i]]]

\* get_exec_name(): args[0].second after its last '/' or '\'
RECURSIVE LastSep(_, _)
LastSep(s, i) ==
    IF i >= 1 /\ s[i] # "/" /\ s[i] # "\\" THEN LastSep(s, i - 1) ELSE i

get_exec_name(a) ==
    LET s == a[1].second
    IN  SubSeq(s, LastSep(s, Len(s)) + 1, Len(s))

\* deal_integer(opt, val_str)
deal_integer(opt, val_str) ==
    LET r == strtoll(val_str, opt.base)
    IN  IF r.end < Len(val_str)
        THEN [opt EXCEPT !.status = "ValueInvalid"]
        ELSE update_numeric_value_n_status(opt, r.val)

\* deal_floating(opt, val_str)
deal_floating(opt, val_str) ==
    LET r == strtod(val_str)
    IN  IF r.end < Len(val_str) \/ r.nan
        THEN [opt EXCEPT !.status = "ValueInvalid"]
        ELSE update_numeric_value_n_status(opt, r.val)

\* a loop without break: the last index whose token NameMatch accepts
\* (searched downwards from the end), Len(a) + 1 when there is none
RECURSIVE LastMatchDown(_, _, _)
LastMatchDown(opt, a, k) ==
    IF k < 1 THEN Len(a) + 1
    ELSE IF NameMatch(opt, a[k].second) THEN k
    ELSE LastMatchDown(opt, a, k - 1)

MatchIndex_last(opt, a, i) == LastMatchDown(opt, a, Len(a))

\* a loop that passes over the tokens already dealt with
RECURSIVE MatchIndex_fresh(_, _, _)
MatchIndex_fresh(opt, a, i) ==
    IF i > Len(a) \/ (~a[i].first /\ NameMatch(opt, a[i].second))
    THEN i
    ELSE MatchIndex_fresh(opt, a, i + 1)

\* the loop of Parse: the first index whose token NameMatch accepts,
\* Len(a) + 1 when the loop runs to the end
RECURSIVE MatchIndex(_, _, _)
MatchIndex(opt, a, i) ==
    IF i > Len(a) \/ NameMatch(opt, a[i].second)
    THEN i
    ELSE MatchIndex(opt, a, i + 1)

\* marking that takes every token up to the one at i
MarkDealt_upto(a, i) ==
    [j \in 1..Len(a) |-> IF j <= i THEN [a[j] EXCEPT !.first = TRUE] ELSE a[j]]

\* marking that flips the flag of the token
MarkDealt_toggle(a, i) == [a EXCEPT ![i].first = ~a[i].first]

\* marking that leaves the token as it is
MarkDealt_none(a, i) == a

\* a.first = true / v.first = true: the token at i is dealt with
MarkDealt(a, i) == [a EXCEPT ![i].first = TRUE]

\* 0 == type: a bool option takes no value
IsFlag(opt) == opt.kind = KBool

\* a test that takes the following token only when it is not yet dealt with
HasValueToken_fresh(a, i) == i + 1 <= Len(a) /\ ~a[i + 1].first

\* i + 1 < args.size(): a token follows the matched name
HasValueToken(a, i) == i + 1 <= Len(a)

\* a string branch that stores the value and forgets the status
TakeString_nostatus(opt, v) == [opt EXCEPT !.value = v]

\* the string branch: the value is the text of the following token
TakeString(opt, v) == [opt EXCEPT !.value = v, !.status = "Parsed"]

\* the branch without a following token, reporting the wrong status
NoValue_invalid(opt) == [opt EXCEPT !.status = "ValueInvalid"]

\* the branch without a following token
NoValue(opt) == [opt EXCEPT !.status = "ValueNotFound"]

\* a Parse that forgets the status when the loop runs to the end
NoMatch_keep(opt) == opt

\* i == args.size() after the loop
NoMatch(opt) == [opt EXCEPT !.status = "NotFound"]

\* Parse(opt): the descriptor and the token list it leaves
ParseOpt(opt, a) ==
    LET i == MatchIndex(opt, a, 1)
    IN  IF i > Len(a)
        THEN [opt |-> NoMatch(opt), args |-> a]
        ELSE
          LET o1 == [opt EXCEPT !.matched_name = a[i].second]
              a1 == MarkDealt(a, i)
          IN  IF IsFlag(opt)
              THEN [opt |-> update_numeric_value_n_status(o1, TRUE), args |-> a1]
              ELSE IF HasValueToken(a, i)
              THEN LET v == a[i + 1].second
                   IN  [opt |-> IF opt.kind = KString
                                THEN TakeString(o1, v)
                                ELSE IF KInt32 <= opt.kind /\ opt.kind <= KInt64
                                THEN deal_integer(o1, v)
                                ELSE deal_floating(o1, v),
                        args |-> MarkDealt(a1, i + 1)]
              ELSE [opt |-> NoValue(o1), args |-> a1]

\* the texts of the tokens not yet dealt with, in order
RECURSIVE UnparsedFrom(_, _)
UnparsedFrom(a, i) ==
    IF i > Len(a) THEN <<>>
    ELSE (IF a[i].first THEN <<>> ELSE <<a[i].second>>) \o UnparsedFrom(a, i + 1)

\* GetAllUnparsedArgs()
GetAllUnparsedArgs(a) == UnparsedFrom(a, 1)

\* FirstUnparsedArg(): the first token not dealt with, else the empty string
RECURSIVE FirstUnparsedFrom(_, _)
FirstUnparsedFrom(a, i) ==
    IF i > Len(a) THEN <<>>
    ELSE IF ~a[i].first THEN a[i].second
    ELSE FirstUnparsedFrom(a, i + 1)

FirstUnparsedArg(a) == FirstUnparsedFrom(a, 1)

\* ------------------------------------------------------------------ state
VARIABLES
    argv,       \* the argument vector the current OptionParser was built from
    args,       \* OptionParser::args: [first |-> dealt with, second |-> text]
    exec_name,  \* OptionParser::exec_name
    opts,       \* the caller's Option instances, by identifier
    parsed,     \* the options Parse was called on with the current parser
    ret,        \* what the last call of Parse returned ("none": no call yet)
    pending     \* the argument vectors of the parsers constructed later

vars == <<argv, args, exec_name, opts, parsed, ret, pending>>

\* ----------------------------------------------------------------- inputs
Exec    == <<"x">>
ExecDir == <<"d", "/", "x">>
NameA   == <<"-", "a">>
NameB   == <<"-", "b">>
AltB    == <<"-", "-", "b", "b">>
NameS   == <<"-", "s">>
NameN   == <<"-", "n">>
AltN    == <<"-", "-", "n">>
Merged  == <<"-", "a", "b">>
Typo    == <<"z", "z">>
Empty   == <<>>

\* the identifiers of the caller's options: two flags, a string, a number
Opts == {"a", "b", "s", "n"}

\* the caller's options, the numeric one built from cfg
MakeOpts(cfg) ==
    [o \in Opts |->
        CASE o = "a" -> NewBool(NameA, Empty)
          [] o = "b" -> NewBool(NameB, AltB)
          [] o = "s" -> NewString(<<"d">>, NameS, Empty)
          [] o = "n" -> NewNumeric(cfg.kind, cfg.dflt, cfg.base, cfg.min, cfg.max,
                                   NameN, AltN)]

\* n as a value of the alternative: floats and doubles count in 1/FracUnits
Num(kind, n) == IF kind \in {KFloat, KDouble} THEN n * FracUnits ELSE n

NumKinds == {KInt32, KUInt32, KInt64, KFloat, KDouble}

\* numeric options: every kind, base 10 and 16, with the full range of the
\* kind, with the range [1, 5] and with the inverted range [5, 2]
NumCfgs ==
    {[kind |-> k, base |-> b, min |-> Lowest(k), max |-> Highest(k),
      dflt |-> Num(k, 3)] : k \in NumKinds, b \in {10, 16}}
    \cup
    {[kind |-> k, base |-> b, min |-> Num(k, r[1]), max |-> Num(k, r[2]),
      dflt |-> Num(k, 3)] : k \in NumKinds, b \in {10, 16},
                            r \in {<<1, 5>>, <<5, 2>>}}

PlainCfg == [kind |-> KInt32, base |-> 10, min |-> 1, max |-> 5, dflt |-> 3]

\* arguments of the command lines that exercise matching
ArgPool == {NameA, NameB, AltB, Merged, NameS, NameN, <<"5">>, Empty, Typo}

\* value tokens of the command lines that exercise conversion
LitPool ==
    {<<"5">>, <<"1">>, <<"-", "3">>, <<"2", "0">>, <<"9", "9", "9">>,
     <<"-", "9", "9", "9">>, <<"0", "x", "1", "f">>, <<"1", "f">>,
     <<"7", "x">>, <<"0", "x">>, Typo, <<"n", "a", "n">>, <<"i", "n", "f">>,
     <<"1", ".", "5">>, <<"4", ".", "7", "5">>, Empty, <<" ", "5">>}

\* sequences over S of the lengths lo..hi
SeqsOf(S, lo, hi) == UNION {[1..n -> S] : n \in lo..hi}

\* command lines exercising matching: any executable path, then up to
\* MaxArgc - 1 arguments of ArgPool
MatchArgvs ==
    {<<e>> \o rest : e \in {Exec, ExecDir, Merged},
                     rest \in SeqsOf(ArgPool, 0, MaxArgc - 1)}

\* command lines exercising conversion: the numeric option and a value
NumArgvs == {<<Exec, n, lit>> : n \in {NameN}, lit \in LitPool}

\* programs that construct a second parser: the first and the second
\* command line
FirstArgvs  == {<<Exec, NameN, <<"5">>>>, <<Exec, NameS, Typo, NameA>>}
SecondArgvs == {<<Exec>>, <<Exec, NameN, <<"7", "x">>>>, <<Exec, NameN>>,
                <<Exec, NameS>>, <<Exec, NameN, <<"2", "0">>>>}

\* ------------------------------------------------------------------- Init
\* the state once the options are defined and the first OptionParser is
\* constructed
Start(av, cfg, later) ==
    /\ argv = av
    /\ args = MakeArgs(av)
    /\ exec_name = get_exec_name(MakeArgs(av))
    /\ opts = MakeOpts(cfg)
    /\ parsed = {}
    /\ ret = "none"
    /\ pending = later

Init ==
    \/ \E av \in MatchArgvs : Start(av, PlainCfg, <<>>)
    \/ \E av \in NumArgvs, cfg \in NumCfgs : Start(av, cfg, <<>>)
    \/ \E av \in FirstArgvs, nx \in SecondArgvs : Start(av, PlainCfg, <<nx>>)

\* ---------------------------------------------------------------- actions
\* op.Parse(opts[o])
Parse(o) ==
    LET r == ParseOpt(opts[o], args)
    IN  /\ opts' = [opts EXCEPT ![o] = r.opt]
        /\ args' = r.args
        /\ ret' = r.opt.status
        /\ parsed' = parsed \cup {o}
        /\ UNCHANGED <<argv, exec_name, pending>>

\* OptionParser op2(argc, argv) on the next command line; the options live on
Construct ==
    /\ pending # <<>>
    /\ argv' = Head(pending)
    /\ args' = MakeArgs(Head(pending))
    /\ exec_name' = get_exec_name(MakeArgs(Head(pending)))
    /\ pending' = Tail(pending)
    /\ parsed' = {}
    /\ UNCHANGED <<opts, ret>>

Next ==
    \/ \E o \in Opts : Parse(o)
    \/ Construct

Spec == Init /\ [][Next]_vars

\* =================================================================== claims
\* ---- vocabulary of the properties (not part of the program)
\* the token at i is spelled like the name or the alternative name of o
Matches(o, i) == args[i].second \in {opts[o].name, opts[o].alt_name}

HasMatch(o) == \E i \in 1..Len(args) : Matches(o, i)

\* the first token spelled like o
FirstOcc(o) ==
    CHOOSE i \in 1..Len(args) : Matches(o, i) /\ \A j \in 1..(i - 1) : ~Matches(o, j)

\* o is followed, at its first occurrence, by a token
HasValueAt(o) == HasMatch(o) /\ FirstOcc(o) < Len(args)

ValueTokenOf(o) == args[FirstOcc(o) + 1].second

IsNumeric(o) == opts[o].kind \in NumKinds
IsInteger(o) == opts[o].kind \in {KInt32, KUInt32, KInt64}

\* the conversion of the value token of o: did it take the whole token, and
\* the number it gave
Converts(o) ==
    IF IsInteger(o)
    THEN strtoll(ValueTokenOf(o), opts[o].base).end = Len(ValueTokenOf(o))
    ELSE /\ strtod(ValueTokenOf(o)).end = Len(ValueTokenOf(o))
         /\ ~strtod(ValueTokenOf(o)).nan

RawOf(o) ==
    IF IsInteger(o)
    THEN strtoll(ValueTokenOf(o), opts[o].base).val
    ELSE strtod(ValueTokenOf(o)).val

Abs(x) == IF x < 0 THEN 0 - x ELSE x

\* the values a float can hold
IsFloatValue(w) ==
    \E e \in 0..(IntBits + FracBits) :
        Abs(w) % Pow2(e) = 0 /\ Abs(w) \div Pow2(e) < Pow2(FltMant)

FloatValues == {w \in (0 - FLT_MAX)..FLT_MAX : IsFloatValue(w)}

\* v is raw narrowed to the kind: raw itself, and for a float a float that
\* no other float is nearer to raw than
IsNarrowed(kind, raw, v) ==
    IF kind = KFloat
    THEN /\ v \in FloatValues
         /\ \A w \in FloatValues : Abs(v - raw) <= Abs(w - raw)
    ELSE v = raw

\* a numeric option parsed with the current parser whose value token
\* converted, with min <= max
ClampCase(o) ==
    /\ o \in parsed
    /\ IsNumeric(o)
    /\ opts[o].min <= opts[o].max
    /\ HasValueAt(o)
    /\ Converts(o)

\* ---- C1
\* C1 (as amended): for a numeric option with min <= max whose value token
\* converts completely to raw, Parse stores clamp(raw): ClampedMin and min
\* when raw < min, ClampedMax and max when raw > max, otherwise Parsed and
\* raw narrowed to the option's kind (raw itself for the integer kinds and
\* double, the nearest float for float).  The comparison is made on the
\* 64-bit value, so an integer option never stores a wrapped value.
C1_ClampStored ==
    \A o \in Opts : ClampCase(o) =>
        LET opt == opts[o]
            raw == RawOf(o)
        IN  /\ raw < opt.min => opt.status = "ClampedMin" /\ opt.value = opt.min
            /\ raw > opt.max => opt.status = "ClampedMax" /\ opt.value = opt.max
            /\ (opt.min <= raw /\ raw <= opt.max) =>
                   opt.status = "Parsed" /\ IsNarrowed(opt.kind, raw, opt.value)
            /\ IsInteger(o) => opt.value \in {opt.min, opt.max, raw}

\* C1 witness: a 32-bit option was given a value beyond the 32-bit range and
\* was clamped to its maximum
C1_Witness ==
    \E o \in Opts :
        /\ ClampCase(o)
        /\ opts[o].kind = KInt32
        /\ RawOf(o) > INT32_MAX
        /\ opts[o].status = "ClampedMax"
        /\ opts[o].value = opts[o].max

\* C1 as stated: in range, the stored value is raw itself, for every kind
C1_Orig ==
    \A o \in Opts : ClampCase(o) =>
        LET opt == opts[o]
            raw == RawOf(o)
        IN  /\ raw < opt.min => opt.status = "ClampedMin" /\ opt.value = opt.min
            /\ raw > opt.max => opt.status = "ClampedMax" /\ opt.value = opt.max
            /\ (opt.min <= raw /\ raw <= opt.max) =>
                   opt.status = "Parsed" /\ opt.value = raw

\* ---- C2
\* C2: Parse on a bool option that was never parsed gives NotFound and
\* leaves the value false when no token is its name or alternative name;
\* otherwise it gives Parsed and true, marks the first such token and
\* changes no other token (the following one is not taken as a value).
C2_BoolParse ==
    [][\A o \in Opts :
          (Parse(o) /\ opts[o].kind = KBool /\ opts[o].status = "NotParsed") =>
              IF HasMatch(o)
              THEN /\ opts'[o].status = "Parsed"
                   /\ opts'[o].value = TRUE
                   /\ args' = [args EXCEPT ![FirstOcc(o)].first = TRUE]
              ELSE /\ opts'[o].status = "NotFound"
                   /\ opts'[o].value = FALSE
                   /\ args' = args]_vars

\* C2 witness: a flag followed by a token was parsed, and the token after it
\* is still not dealt with
C2_Witness ==
    \E o \in parsed :
        /\ opts[o].kind = KBool
        /\ opts[o].status = "Parsed"
        /\ opts[o].value = TRUE
        /\ HasValueAt(o)
        /\ args[FirstOcc(o)].first
        /\ ~args[FirstOcc(o) + 1].first

\* ---- C3
\* the token at j is the first occurrence of an option, or the token after
\* the first occurrence of an option that takes a value
Claimed(j, D) ==
    \E q \in D :
        /\ HasMatch(q)
        /\ \/ j = FirstOcc(q)
           \/ opts[q].kind # KBool /\ j = FirstOcc(q) + 1

Range(f) == {f[i] : i \in DOMAIN f}

PlainLine ==
    /\ \A i \in 1..Len(args) : args[i].second # <<>>
    /\ args[1].second = argv[1]

TokenCount(a) ==
    IF Len(a) >= 3 /\ a[1] = "-" /\ a[2] \notin {"-", "."} /\ ~IsDigit(a[2])
    THEN Len(a) - 1
    ELSE 1

\* the number of tokens before those of argv[k]
RECURSIVE TokensBefore(_)
TokensBefore(k) ==
    IF k <= 1 THEN 0 ELSE TokensBefore(k - 1) + TokenCount(argv[k - 1])

IsFlagName(c) == \E o \in Opts : opts[o].kind = KBool /\ opts[o].name = <<"-", c>>
FlagOf(c) == CHOOSE o \in Opts : opts[o].kind = KBool /\ opts[o].name = <<"-", c>>

\* argv[k] is '-x1..xn' with n >= 2, x1 no digit, '-' or '.', every '-xi'
\* the name of a flag of its own, and each of these flags is parsed
MergedCase(k) ==
    LET a == argv[k]
    IN  /\ Len(a) >= 3
        /\ a[1] = "-"
        /\ a[2] \notin {"-", "."} /\ ~IsDigit(a[2])
        /\ \A j \in 2..Len(a) : IsFlagName(a[j]) /\ FlagOf(a[j]) \in parsed
        /\ \A j1, j2 \in 2..Len(a) : j1 # j2 => a[j1] # a[j2]

\* C4 (as amended): after Parse on each flag of a merged argument
\* '-x1..xn', every one of the flags is Parsed and true, and a token made
\* from the argument is dealt with unless an earlier token is already
\* spelled like its flag (the flag then took that earlier token).
C4_MergedFlags ==
    \A k \in 1..Len(argv) : MergedCase(k) =>
        \A j \in 2..Len(argv[k]) :
            LET o == FlagOf(argv[k][j])
                t == TokensBefore(k) + j - 1
            IN  /\ opts[o].status = "Parsed"
                /\ opts[o].value = TRUE
                /\ args[t].second = <<"-", argv[k][j]>>
                /\ ~args[t].first => \E e \in 1..(t - 1) : Matches(o, e)

\* C4 witness: the flags of a merged argument are parsed and all its tokens
\* are dealt with
C4_Witness ==
    \E k \in 2..Len(argv) :
        /\ MergedCase(k)
        /\ \A j \in 2..Len(argv[k]) :
              /\ opts[FlagOf(argv[k][j])].status = "Parsed"
              /\ args[TokensBefore(k) + j - 1].first

\* C4 as stated (on plain command lines): the flags
\* are Parsed and true and no token made from the merged argument is left
C4_Orig ==
    PlainLine =>
        \A k \in 1..Len(argv) : MergedCase(k) =>
            \A j \in 2..Len(argv[k]) :
                LET o == FlagOf(argv[k][j])
                    t == TokensBefore(k) + j - 1
                IN  /\ opts[o].status = "Parsed"
                    /\ opts[o].value = TRUE
                    /\ args[t].first

\* ---- C5
\* C5 as stated: whenever the status of an option is NotParsed, NotFound,
\* ValueNotFound or ValueInvalid, its value is its default value
C5_DefaultKept ==
    \A o \in Opts :
        opts[o].status \in {"NotParsed", "NotFound", "ValueNotFound", "ValueInvalid"}
            => opts[o].value = opts[o].default_val

\* ---- C6
\* the characters of s from position i on
From(s, i) == SubSeq(s, i, Len(s))

\* s without leading white space and without one sign
Unsigned(s) ==
    LET i == SkipSpace(s, 1)
    IN  IF i <= Len(s) /\ s[i] \in {"-", "+"} THEN From(s, i + 1) ELSE From(s, i)

\* s is one or more digits of the base
AllDigits(s, base) == Len(s) >= 1 /\ \A i \in 1..Len(s) : DigitVal(s[i]) < base

\* s is digits of the base with at most one '.', and at least one digit
Fractional(s, base) ==
    \/ AllDigits(s, base)
    \/ \E d \in 1..Len(s) :
          /\ s[d] = "."
          /\ Len(s) >= 2
          /\ \A i \in 1..Len(s) : i # d => DigitVal(s[i]) < base

HasHexPrefix(s) == Len(s) >= 2 /\ s[1] = "0" /\ s[2] \in {"x", "X"}

\* the whole token is an integer literal of the base
WellFormedInteger(tok, base) ==
    LET u == Unsigned(tok)
    IN  \/ AllDigits(u, base)
        \/ base = 16 /\ HasHexPrefix(u) /\ AllDigits(From(u, 3), 16)

\* the whole token is a floating literal ("nan" is not)
WellFormedFloating(tok) ==
    LET u == Unsigned(tok)
    IN  \/ Fractional(u, 10)
        \/ HasHexPrefix(u) /\ Fractional(From(u, 3), 16)
        \/ [k \in 1..Len(u) |-> Lower(u[k])] \in
               {<<"i", "n", "f">>, <<"i", "n", "f", "i", "n", "i", "t", "y">>}

WellFormed(o, tok) ==
    IF IsInteger(o)
    THEN WellFormedInteger(tok, opts[o].base)
    ELSE WellFormedFloating(tok)

\* C6 as stated: when the value token of a numeric option is not, as a
\* whole, a well-formed literal, Parse gives ValueInvalid, leaves the value
\* as it was and marks the name token and the value token
C6_InvalidRejected ==
    [][\A o \in Opts :
          (Parse(o) /\ IsNumeric(o) /\ HasValueAt(o)
                    /\ ~WellFormed(o, ValueTokenOf(o))) =>
              /\ opts'[o].status = "ValueInvalid"
              /\ opts'[o].value = opts[o].value
              /\ args' = [args EXCEPT ![FirstOcc(o)].first = TRUE,
                                      ![FirstOcc(o) + 1].first = TRUE]]_vars

\* what C6 says holds of every value token but the empty string
C6_ExceptEmpty ==
    [][\A o \in Opts :
          (Parse(o) /\ IsNumeric(o) /\ HasValueAt(o)
                    /\ ValueTokenOf(o) # <<>>) =>
              /\ (opts'[o].status = "ValueInvalid") = ~WellFormed(o, ValueTokenOf(o))
              /\ opts'[o].status = "ValueInvalid" => opts'[o].value = opts[o].value
              /\ args' = [args EXCEPT ![FirstOcc(o)].first = TRUE,
                                      ![FirstOcc(o) + 1].first = TRUE]]_vars

\* ---- C7
\* C7: when the first token spelled like a string or numeric option is the
\* last token, Parse gives ValueNotFound, leaves the value as it was, marks
\* that token and no other.
C7_MissingValue ==
    [][\A o \in Opts :
          (Parse(o) /\ opts[o].kind # KBool /\ HasMatch(o)
                    /\ FirstOcc(o) = Len(args)) =>
              /\ opts'[o].status = "ValueNotFound"
              /\ ret' = "ValueNotFound"
              /\ opts'[o].value = opts[o].value
              /\ args' = [args EXCEPT ![Len(args)].first = TRUE]]_vars

\* C7 witness: an option that takes a value was parsed with its name as the
\* last of several tokens; the name is marked, a token before it is not
C7_Witness ==
    \E o \in parsed :
        /\ opts[o].kind # KBool
        /\ HasMatch(o)
        /\ FirstOcc(o) = Len(args)
        /\ opts[o].status = "ValueNotFound"
        /\ opts[o].value = opts[o].default_val
        /\ args[Len(args)].second = opts[o].name
        /\ args[Len(args)].first
        /\ args[1].second = argv[1]
        /\ \E j \in 2..(Len(args) - 1) : ~args[j].first

\* ---- C8
\* the texts of the tokens from i on that no option of D claims
RECURSIVE LeftFrom(_, _)
LeftFrom(i, D) ==
    IF i > Len(args) THEN <<>>
    ELSE (IF i = 1 \/ Claimed(i, D) THEN <<>> ELSE <<args[i].second>>)
         \o LeftFrom(i + 1, D)

\* C8: with D the options parsed so far, the tokens not dealt with are
\* those at index >= 1 that are neither the first occurrence of an option
\* of D nor the token after the first occurrence of one that takes a value;
\* GetAllUnparsedArgs is these tokens in order, FirstUnparsedArg the first.
C8_Leftovers ==
    /\ \A i \in 1..Len(args) : args[i].first = (i = 1 \/ Claimed(i, parsed))
    /\ GetAllUnparsedArgs(args) = LeftFrom(1, parsed)
    /\ LeftFrom(1, parsed) # <<>> => FirstUnparsedArg(args) = Head(LeftFrom(1, parsed))

\* C8 witness: on a plain command line every option is parsed, an argument
\* no option names is the only token left, and another token was taken
C8_Witness ==
    /\ parsed = Opts
    /\ PlainLine
    /\ FirstUnparsedArg(args) = Typo
    /\ GetAllUnparsedArgs(args) = <<Typo>>
    /\ \E i \in 2..Len(args) : args[i].first

\* ---- C9
\* C9 (as amended): for a numeric option with min <= max whose value v
\* converts, min <= stored <= max; the status is ClampedMin exactly when
\* v < min, and then stored = min; ClampedMax exactly when v > max, and
\* then stored = max; otherwise the status is Parsed and stored is v
\* narrowed to the kind, so stored equals a bound without clamping exactly
\* when v narrowed is that bound.
C9_Bounds ==
    \A o \in Opts : ClampCase(o) =>
        LET opt == opts[o]
            v   == RawOf(o)
        IN  /\ opt.min <= opt.value /\ opt.value <= opt.max
            /\ (opt.status = "ClampedMin") = (v < opt.min)
            /\ (opt.status = "ClampedMax") = (v > opt.max)
            /\ opt.status = "ClampedMin" => opt.value = opt.min
            /\ opt.status = "ClampedMax" => opt.value = opt.max
            /\ opt.status \notin {"ClampedMin", "ClampedMax"} =>
                   opt.status = "Parsed" /\ IsNarrowed(opt.kind, v, opt.value)
            /\ (opt.value = opt.min /\ opt.status # "ClampedMin") =>
                   IsNarrowed(opt.kind, v, opt.min)
            /\ (opt.value = opt.max /\ opt.status # "ClampedMax") =>
                   IsNarrowed(opt.kind, v, opt.max)

\* C9 witness: a value equal to the maximum was stored without clamping
C9_Witness ==
    \E o \in Opts :
        /\ ClampCase(o)
        /\ opts[o].min < opts[o].max
        /\ RawOf(o) = opts[o].max
        /\ opts[o].value = opts[o].max
        /\ opts[o].status = "Parsed"

\* C9 as stated (for min <= max): min <= stored <= max, stored = min iff
\* the status is ClampedMin, stored = max iff the status is ClampedMax,
\* otherwise stored = v and the status is Parsed
C9_Orig ==
    \A o \in Opts : ClampCase(o) =>
        LET opt == opts[o]
            v   == RawOf(o)
        IN  /\ opt.min <= opt.value /\ opt.value <= opt.max
            /\ (opt.value = opt.min) = (opt.status = "ClampedMin")
            /\ (opt.value = opt.max) = (opt.status = "ClampedMax")
            /\ opt.status \notin {"ClampedMin", "ClampedMax"} =>
                   opt.status = "Parsed" /\ opt.value = v

\* ---- C10
\* C10 as stated: token 0 is argv[0] as given and is dealt with in every
\* state; right after construction no other token is
C10_ExecToken ==
    /\ args[1].second = argv[1]
    /\ args[1].first
    /\ (parsed = {}) => \A i \in 2..Len(args) : ~args[i].first

\* what C10 says of the mark of token 0 and of the other tokens holds
C10_MarkOnly ==
    /\ args[1].first
    /\ (parsed = {}) => \A i \in 2..Len(args) : ~args[i].first

\* ---- C11
\* the digits of an integer literal: the token without white space, sign
\* and, in base 16, 0x prefix
DigitsOf(tok, base) ==
    LET u == Unsigned(tok)
    IN  IF base = 16 /\ HasHexPrefix(u) /\ Len(u) > 2 THEN From(u, 3) ELSE u

\* the token's first character after white space is a minus sign
IsNegative(tok) ==
    LET i == SkipSpace(tok, 1) IN i <= Len(tok) /\ tok[i] = "-"

\* the number a well-formed integer literal denotes, of any magnitude
MathValue(tok, base) ==
    LET d == DigitsOf(tok, base)
        m == Magnitude(d, 1, Len(d) + 1, base, 0, Power(base, Len(d)))
    IN  IF IsNegative(tok) THEN 0 - m ELSE m

\* an integer option parsed with the current parser, with min <= max, whose
\* value token is a well-formed integer literal of its base
LiteralCase(o) ==
    /\ o \in parsed
    /\ IsInteger(o)
    /\ opts[o].min <= opts[o].max
    /\ HasValueAt(o)
    /\ WellFormedInteger(ValueTokenOf(o), opts[o].base)

\* C11 as stated: a well-formed integer literal whose value is below min
\* gives ClampedMin and min, one whose value is above max gives ClampedMax
\* and max, whatever the magnitude of the literal
C11_OutOfRangeClamped ==
    \A o \in Opts : LiteralCase(o) =>
        LET opt == opts[o]
            m   == MathValue(ValueTokenOf(o), opt.base)
        IN  /\ m < opt.min => opt.status = "ClampedMin" /\ opt.value = opt.min
            /\ m > opt.max => opt.status = "ClampedMax" /\ opt.value = opt.max

\* what C11 says holds of every literal within the range of int64_t, and
\* of every option whose bounds are not those of int64_t
C11_Within64 ==
    \A o \in Opts : LiteralCase(o) =>
        LET opt == opts[o]
            m   == MathValue(ValueTokenOf(o), opt.base)
        IN  ((LLONG_MIN <= m /\ m <= LLONG_MAX)
                \/ (LLONG_MIN < opt.min /\ opt.max < LLONG_MAX)) =>
               /\ m < opt.min => opt.status = "ClampedMin" /\ opt.value = opt.min
               /\ m > opt.max => opt.status = "ClampedMax" /\ opt.value = opt.max
               /\ (opt.min <= m /\ m <= opt.max) =>
                      opt.status = "Parsed" /\ opt.value = m


\* ---- C12
\* the first token spelled like the string option o is the whole argument
\* argv[k], k past the executable path, and an argument follows it
StringCase(o, k) ==
    /\ o \in parsed
    /\ opts[o].kind = KString
    /\ k >= 2 /\ k < Len(argv)
    /\ TokenCount(argv[k]) = 1
    /\ HasMatch(o)
    /\ FirstOcc(o) = TokensBefore(k) + 1

\* C12 as stated (on plain command lines): the value of a string option is
\* the argument that follows its name on the command line, as given, and
\* the status is Parsed
C12_StringVerbatim ==
    \A o \in Opts, k \in 1..Len(argv) : (StringCase(o, k) /\ PlainLine) =>
        /\ opts[o].status = "Parsed"
        /\ opts[o].value = argv[k + 1]

\* what C12 says holds of every following argument the constructor keeps
\* whole; of one it splits, the value is the first of its tokens
C12_FirstToken ==
    \A o \in Opts, k \in 1..Len(argv) : StringCase(o, k) =>
        /\ opts[o].status = "Parsed"
        /\ TokenCount(argv[k + 1]) = 1 => opts[o].value = argv[k + 1]
        /\ TokenCount(argv[k + 1]) > 1 => opts[o].value = <<"-", argv[k + 1][2]>>


\* ---- C13
\* C13: the token list is the arguments' expansions, in argument order: an
\* argument of three or more characters that begins with '-' and whose
\* second character is no '-', '.' or digit gives one token "-c" for each
\* character c after the '-', in character order; any other argument gives
\* one token, the argument itself.
C13_Expansion ==
    /\ Len(args) = TokensBefore(Len(argv) + 1)
    /\ \A k \in 1..Len(argv) :
          LET a == argv[k]
              t == TokensBefore(k)
          IN  IF /\ Len(a) >= 3
                 /\ a[1] = "-"
                 /\ a[2] \notin {"-", "."} /\ ~IsDigit(a[2])
              THEN \A j \in 1..(Len(a) - 1) :
                       args[t + j].second = <<"-", a[j + 1]>>
              ELSE args[t + 1].second = a

\* C13 witness: a merged argument between two arguments that are kept: its
\* tokens stand between theirs, in character order
C13_Witness ==
    \E k \in 2..(Len(argv) - 1) :
        /\ argv[k] = Merged
        /\ argv[k + 1] = Typo
        /\ Len(args) = Len(argv) + 1
        /\ args[k - 1].second = argv[k - 1]
        /\ args[k].second = <<"-", "a">>
        /\ args[k + 1].second = <<"-", "b">>
        /\ args[k + 2].second = Typo


\* ---- C14
\* args with the token at i marked, and the one after it when o takes a
\* value and there is one
MarkedAt(o, i) ==
    [j \in 1..Len(args) |->
        IF j = i \/ (opts[o].kind # KBool /\ j = i + 1)
        THEN [args[j] EXCEPT !.first = TRUE]
        ELSE args[j]]

\* C14: Parse matches the first token, from index 0 on, whose text is the
\* name or the alternative name, whether or not that token is already dealt
\* with: the matched name is its text and the marks are set at it; the
\* status is NotFound exactly when no token has such a text.
C14_MatchPoint ==
    [][\A o \in Opts : Parse(o) =>
          /\ (opts'[o].status = "NotFound") = ~HasMatch(o)
          /\ ret' = opts'[o].status
          /\ HasMatch(o) =>
                /\ opts'[o].matched_name = args[FirstOcc(o)].second
                /\ args' = MarkedAt(o, FirstOcc(o))
          /\ ~HasMatch(o) => args' = args]_vars

\* C14 witness: the string option took the name of the numeric option as
\* its value, and the numeric option, parsed after it, still matched that
\* token, the last one
C14_Witness ==
    /\ {"s", "n"} \subseteq parsed
    /\ PlainLine
    /\ opts["s"].status = "Parsed"
    /\ opts["s"].value = NameN
    /\ FirstOcc("n") = FirstOcc("s") + 1
    /\ FirstOcc("n") = Len(args)
    /\ opts["n"].matched_name = NameN
    /\ opts["n"].status = "ValueNotFound"
    /\ ret = "ValueNotFound"


\* ---- C15
\* the statuses a Parse call can leave
Outcomes == {"NotFound", "ValueInvalid", "ValueNotFound",
             "ClampedMax", "ClampedMin", "Parsed"}

\* the statuses an option of the kind can ever have
StatusesOf(kind) ==
    CASE kind = KBool   -> {"NotParsed", "NotFound", "Parsed"}
      [] kind = KString -> {"NotParsed", "NotFound", "ValueNotFound", "Parsed"}
      [] OTHER          -> Status

\* C15: every option starts in NotParsed; in every state Parse can be
\* called on every option and yields one of NotFound, ValueInvalid,
\* ValueNotFound, ClampedMax, ClampedMin, Parsed; a call returns the status
\* it stored; a bool option is only ever NotFound or Parsed after it, a
\* string option NotFound, ValueNotFound or Parsed.
C15_StatusMachine ==
    /\ \A o \in Opts : opts[o].status = "NotParsed"
    /\ [][\A o \in Opts :
              /\ ParseOpt(opts[o], args).opt.status \in Outcomes
              /\ opts'[o].status \in StatusesOf(opts[o].kind)
              /\ Parse(o) =>
                    /\ ret' = opts'[o].status
                    /\ ret' \in Outcomes
                    /\ ret' \in StatusesOf(opts[o].kind)]_vars

\* C15 witness: every option was parsed; a flag was found, a flag was not,
\* the string option lacks its value, and the last call returned one of the
\* six outcomes
C15_Witness ==
    /\ parsed = Opts
    /\ PlainLine
    /\ opts["a"].status = "Parsed"
    /\ opts["b"].status = "NotFound"
    /\ opts["s"].status = "ValueNotFound"
    /\ opts["n"].status = "NotFound"
    /\ ret \in Outcomes


\* ---- C16
\* a descriptor of another kind with the names of opt
TwinOf(opt) ==
    IF opt.kind = KString
    THEN NewBool(opt.name, opt.alt_name)
    ELSE NewString(<<"t">>, opt.name, opt.alt_name)

\* Parse(A) then Parse(B) from the token list a: both descriptors and the
\* token list at the end
InOrder(A, B, a) ==
    LET r1 == ParseOpt(A, a)
        r2 == ParseOpt(B, r1.args)
    IN  [fst |-> r1.opt, snd |-> r2.opt, args |-> r2.args]

\* C16: from every state of a parser and for every two descriptors A and B
\* (B another of the caller's options, or a descriptor of another kind with
\* the very names of A), Parse(A) then Parse(B) leaves the same status,
\* value and matched name of A, the same of B, and the same marks on the
\* tokens, as Parse(B) then Parse(A).
C16_OrderFree ==
    \A o, p \in Opts, tw \in BOOLEAN : (tw = (o = p)) =>
        LET A  == opts[o]
            B  == IF tw THEN TwinOf(opts[p]) ELSE opts[p]
            ab == InOrder(A, B, args)
            ba == InOrder(B, A, args)
        IN  /\ ab.fst = ba.snd
            /\ ab.snd = ba.fst
            /\ ab.args = ba.args

\* C16 witness: the string option and a flag were parsed on "-s -a", where
\* the flag's name is the string's value; the state is what either order
\* gives from the constructed parser
C16_Witness ==
    /\ parsed = {"s", "a"}
    /\ PlainLine
    /\ HasMatch("s") /\ HasMatch("a")
    /\ FirstOcc("a") = FirstOcc("s") + 1
    /\ opts["s"].status = "Parsed" /\ opts["s"].value = NameA
    /\ opts["a"].status = "Parsed"
    /\ LET o0 == MakeOpts(PlainCfg)
           sa == InOrder(o0["s"], o0["a"], MakeArgs(argv))
           as == InOrder(o0["a"], o0["s"], MakeArgs(argv))
       IN  /\ args = sa.args /\ args = as.args
           /\ opts["s"] = sa.fst /\ opts["s"] = as.snd
           /\ opts["a"] = sa.snd /\ opts["a"] = as.fst


\* ---- C17
\* C17: after a call of Parse on an option, a second call on the same
\* option with the same parser changes nothing: the option's status, value
\* and matched name and the mark of every token stay as the first call
\* left them.
C17_Idempotent ==
    [][\A o \in Opts : Parse(o) =>
          LET again == ParseOpt(opts'[o], args')
          IN  /\ again.opt.status = opts'[o].status
              /\ again.opt.value = opts'[o].value
              /\ again.opt.matched_name = opts'[o].matched_name
              /\ again.opt = opts'[o]
              /\ again.args = args']_vars

\* C17 witness: the numeric option was parsed and clamped to its maximum,
\* its name and value tokens are marked, and parsing it again gives this
\* very state
C17_Witness ==
    /\ "n" \in parsed
    /\ opts["n"].status = "ClampedMax"
    /\ opts["n"].value = opts["n"].max
    /\ opts["n"].value # opts["n"].default_val
    /\ HasValueAt("n")
    /\ args[FirstOcc("n")].first /\ args[FirstOcc("n") + 1].first
    /\ ParseOpt(opts["n"], args) = [opt |-> opts["n"], args |-> args]


\* ---- C18
\* C18 as stated: FirstUnparsedArg is the empty string exactly when no
\* token is left (GetAllUnparsedArgs is empty), and otherwise the first
\* element of GetAllUnparsedArgs
C18_FirstLeftover ==
    /\ (FirstUnparsedArg(args) = <<>>) = (GetAllUnparsedArgs(args) = <<>>)
    /\ GetAllUnparsedArgs(args) # <<>> =>
           FirstUnparsedArg(args) = Head(GetAllUnparsedArgs(args))

\* what C18 says holds in one direction: without a token left
\* FirstUnparsedArg is the empty string, and with one it is the first
\* element of GetAllUnparsedArgs (which may itself be the empty string)
C18_HeadOrEmpty ==
    /\ GetAllUnparsedArgs(args) = <<>> => FirstUnparsedArg(args) = <<>>
    /\ GetAllUnparsedArgs(args) # <<>> =>
           FirstUnparsedArg(args) = Head(GetAllUnparsedArgs(args))


\* ---- C19
\* o has no alternative name and no token is spelled like its name
NameAbsent(o) ==
    /\ opts[o].alt_name = <<>>
    /\ \A i \in 1..Len(args) : args[i].second # opts[o].name

\* C19 as stated: Parse on an option without alternative name whose name
\* is the text of no token gives NotFound, marks no token and leaves the
\* value and the matched name as they were
C19_NameOnly ==
    [][\A o \in Opts : (Parse(o) /\ NameAbsent(o)) =>
          /\ opts'[o].status = "NotFound"
          /\ ret' = "NotFound"
          /\ args' = args
          /\ opts'[o].value = opts[o].value
          /\ opts'[o].matched_name = opts[o].matched_name]_vars

\* what C19 says holds on every token list without an empty token
C19_NoEmptyToken ==
    [][\A o \in Opts :
          (Parse(o) /\ NameAbsent(o)
                    /\ \A i \in 1..Len(args) : args[i].second # <<>>) =>
              /\ opts'[o].status = "NotFound"
              /\ args' = args
              /\ opts'[o].value = opts[o].value
              /\ opts'[o].matched_name = opts[o].matched_name]_vars


\* ---- C20
\* the tokens whose mark differs between the token lists a and b
Changed(a, b) == {i \in 1..Len(a) : a[i].first # b[i].first}

\* the tokens Parse on o may mark: the first one spelled like o and, when o
\* takes a value, the one after it
MayMark(o) ==
    IF HasMatch(o)
    THEN {FirstOcc(o)} \cup (IF opts[o].kind # KBool THEN {FirstOcc(o) + 1} ELSE {})
    ELSE {}

\* C20: a call of Parse changes neither the number of tokens nor the text
\* of any token; no mark is ever taken back; the call marks at most two
\* tokens, the matched name token and, for an option that takes a value,
\* the token after it, none when the status is NotFound, and changes the
\* mark of no other token.
C20_Monotonic ==
    [][\A o \in Opts : Parse(o) =>
          /\ Len(args') = Len(args)
          /\ \A i \in 1..Len(args) :
                /\ args'[i].second = args[i].second
                /\ args[i].first => args'[i].first
          /\ Changed(args, args') \subseteq MayMark(o)
          /\ Cardinality(Changed(args, args')) <= 2
          /\ \A i \in MayMark(o) : i <= Len(args) => args'[i].first
          /\ opts'[o].status = "NotFound" => args' = args]_vars

\* C20 witness: on a plain command line the string option alone was parsed;
\* its name and its value are marked and a later token is not
C20_Witness ==
    /\ parsed = {"s"}
    /\ PlainLine
    /\ HasValueAt("s")
    /\ opts["s"].status = "Parsed"
    /\ Len(args) = TokensBefore(Len(argv) + 1)
    /\ Changed(MakeArgs(argv), args) = {FirstOcc("s"), FirstOcc("s") + 1}
    /\ \E j \in (FirstOcc("s") + 2)..Len(args) : ~args[j].first

====
